---- MODULE Spec2Model ----
(***************************************************************************)
(* Cert Quest (src/game.js): the simulation core driven by gameLoop, the   *)
(* session control handlers and the exposed scoring function.              *)
(*                                                                         *)
(* Units.  Times are integer milliseconds and every elapsed time is a      *)
(* multiple of 10 ms.  Positions and sizes are hundredths of a pixel,      *)
(* velocities are pixels per second, so that v * dtSeconds is the integer  *)
(* v * (dtMs \div 10) and GRAVITY * dtSeconds is 11 * (dtMs \div 10).      *)
(* Math.random() is a draw in thousandths (0..999).                        *)
(***************************************************************************)
EXTENDS Integers, Sequences, FiniteSets, TLC

VARIABLES
    gameState,                \* "start" | "playing" | "game_over"
    player,                   \* [x, y, vx, vy, onGround, facing]
    knowledgeState,           \* [percent, timeSinceErosionMs]
    mistakesState,            \* [count]
    scoreState,               \* [patientsTreated, assessmentsPassed]
    fallingItems,             \* sequence of [type, x, y, width, height, vy]
    itemSpawnState,           \* [timeSinceLastSpawnMs, nextSpawnDelayMs]
    assessmentState,          \* [pending]
    patientState,             \* [active, timeSinceLastPatientGoneMs, contactDurationMs]
    groundMistakes,           \* sequence of [x, y, width, height, lifetimeMs]
    groundMistakeSpawnState,  \* [timeSinceLastSpawnMs, nextSpawnDelayMs]
    lastTimestamp,            \* <<>> (null) or <<t>>, t the timestamp of the latest processed frame
    finalScoreLine,           \* <<>> or <<totalScore>>: the score line of the game-over screen
    pendingFrames,            \* callbacks requested with requestAnimationFrame and not yet run
    endGameCalls,             \* calls of endGame since the latest startGame (or since load)
    events,                   \* what the latest handler that ran did, in order
    clock,                    \* the timestamp of the latest frame callback, in ms
    frameGap,                 \* the display's frame interval, in ms
    scoreCall                 \* the latest call of window.CertQuest.computeScore: <<>> or <<p, a, result>>

vars == <<gameState, player, knowledgeState, mistakesState, scoreState,
          fallingItems, itemSpawnState, assessmentState, patientState,
          groundMistakes, groundMistakeSpawnState, lastTimestamp,
          finalScoreLine, pendingFrames, endGameCalls, events, clock, frameGap, scoreCall>>

(***************************************************************************)
(* Bounds of the model                                                     *)
(***************************************************************************)
\* The canvas element's size in pixels (set by the page, not by game.js).
CanvasWidth == 100
CanvasHeight == 205
\* The number of frame callbacks the browser runs.
MaxFrames == 20
\* Largest number used as an argument of computeScore.
MaxArg == 6
\* updatePlayer alone is applied over at most this much elapsed time, in ms
MaxPlayerMs == 1500
\* The erosion timer alone is run over at most this much elapsed time, in ms
MaxErosionMs == 36000

(***************************************************************************)
(* Game constants                                                          *)
(***************************************************************************)
PLAYER_WIDTH == 32
PLAYER_HEIGHT == 52
PLAYER_SPEED == 220
JUMP_VELOCITY == -420
GRAVITY == 1100
KNOWLEDGE_PICKUP_AMOUNT == 10
KNOWLEDGE_EROSION_STEP == 5
KNOWLEDGE_EROSION_INTERVAL_MS == 3000
KNOWLEDGE_MIN == 0
KNOWLEDGE_MAX == 100
KNOWLEDGE_WARNING_THRESHOLD == 30
MAX_MISTAKES == 5
PATIENT_VISIBLE_MS == 8000
PATIENT_GAP_MS == 2000
PATIENT_TREAT_DURATION_MS == 2000
ITEM_SPAWN_INTERVAL_MIN_MS == 900
ITEM_SPAWN_INTERVAL_MAX_MS == 1800
GROUND_MISTAKE_DURATION_MS == 2000
GROUND_MISTAKE_SPAWN_INTERVAL_MIN_MS == 2400
GROUND_MISTAKE_SPAWN_INTERVAL_MAX_MS == 5600

FLOOR_Y == 100 * (CanvasHeight - 60)

Null == [none |-> TRUE]

\* The handler running in state s does what: the record of it
Did(s, what) == [s EXCEPT !.events = Append(@, what)]

(***************************************************************************)
(* Helpers                                                                 *)
(***************************************************************************)
Min(a, b) == IF a < b THEN a ELSE b
Max(a, b) == IF a > b THEN a ELSE b

clamp(value, min, max) == Min(max, Max(min, value))

\* Math.floor(Math.random() * (max - min + 1)) + min, with the draw u in thousandths
randomBetween(min, max, u) == ((u * (max - min + 1)) \div 1000) + min

intersects(a, b) ==
    ~ (  a.x + a.width < b.x
      \/ a.x > b.x + b.width
      \/ a.y + a.height < b.y
      \/ a.y > b.y + b.height )

getPlayerHitBox(p) ==
    [ x |-> p.x + 400,
      y |-> p.y + 600,
      width |-> 100 * PLAYER_WIDTH - 400 * 2,
      height |-> 100 * PLAYER_HEIGHT - 600 - 600 ]

(***************************************************************************)
(* The scoring function                                                    *)
(***************************************************************************)
\* A JavaScript value: its typeof and, for a number, the number.
Num(n) == [type |-> "number", num |-> n]
NonNumber(t) == [type |-> t, num |-> 0]

Threw(msg) == [threw |-> TRUE, error |-> msg, value |-> 0]
Returned(v) == [threw |-> FALSE, error |-> "", value |-> v]

\* computeScore with both counts weighted 1
computeScore_Unweighted(patientsTreated, assessmentsPassed) ==
    IF patientsTreated.type # "number" \/ assessmentsPassed.type # "number"
    THEN Threw("Score inputs must be numeric.")
    ELSE IF patientsTreated.num < 0 \/ assessmentsPassed.num < 0
    THEN Threw("Score inputs must be non-negative.")
    ELSE Returned(patientsTreated.num * 1 + assessmentsPassed.num * 1)

\* computeScore without the check of lines 142-144
computeScore_NoSignCheck(patientsTreated, assessmentsPassed) ==
    IF patientsTreated.type # "number" \/ assessmentsPassed.type # "number"
    THEN Threw("Score inputs must be numeric.")
    ELSE Returned(patientsTreated.num * 1 + assessmentsPassed.num * 2)

computeScore(patientsTreated, assessmentsPassed) ==
    IF patientsTreated.type # "number" \/ assessmentsPassed.type # "number"
    THEN Threw("Score inputs must be numeric.")
    ELSE IF patientsTreated.num < 0 \/ assessmentsPassed.num < 0
    THEN Threw("Score inputs must be non-negative.")
    ELSE Returned(patientsTreated.num * 1 + assessmentsPassed.num * 2)

(***************************************************************************)
(* The simulation state as one record, and the state after construction    *)
(***************************************************************************)
State ==
    [ gameState |-> gameState, player |-> player,
      knowledgeState |-> knowledgeState, mistakesState |-> mistakesState,
      scoreState |-> scoreState, fallingItems |-> fallingItems,
      itemSpawnState |-> itemSpawnState, assessmentState |-> assessmentState,
      patientState |-> patientState, groundMistakes |-> groundMistakes,
      groundMistakeSpawnState |-> groundMistakeSpawnState,
      lastTimestamp |-> lastTimestamp, finalScoreLine |-> finalScoreLine,
      endGameCalls |-> endGameCalls,
      events |-> <<>>,
      thrown |-> FALSE ]   \* an exception is propagating out of the handler

(***************************************************************************)
(* The environment                                                         *)
(***************************************************************************)
\* Math.random() outcomes, in thousandths.  The type roll of spawnRandomItem
\* takes the two sides of its 0.825 cutoff; positions and spawn delays take
\* the low end of their randomBetween range (items, patients and ground
\* mistakes appear at x = 20, after the shortest delay).
Rolls == {825, 826}
PositionDraws == {0}
ItemDelayDraws == {0}
GroundDelayDraws == {0}

\* Frame intervals of the display, in ms: a slow display and a throttled page.
\* The interval stays the same while the page is open.
FrameGaps == {600, 3000}
HalfSecondGaps == {500}

\* Key intents (inputState) a frame may find: <<left, right, jump>>.
Intents == { <<FALSE, FALSE, FALSE>>, <<TRUE, FALSE, FALSE>>,
             <<FALSE, TRUE, FALSE>>, <<FALSE, FALSE, TRUE>> }

\* Arguments of a call of the exposed computeScore.
ScoreArgs == { Num(n) : n \in -2..MaxArg }
                \cup { NonNumber("string"), NonNumber("undefined"), NonNumber("object") }

playerStart ==
    [ x |-> 50 * CanvasWidth - 50 * PLAYER_WIDTH,
      y |-> FLOOR_Y - 100 * PLAYER_HEIGHT,
      vx |-> 0, vy |-> 0, onGround |-> TRUE, facing |-> 1 ]

\* startGame without the reset of lines 188-189
startGame_KeepsScore(s, delayU, groundDelayU) ==
    [ Did(s, "startGame") EXCEPT
        !.gameState = "playing",
        !.player = playerStart,
        !.knowledgeState = [percent |-> 50, timeSinceErosionMs |-> 0],
        !.mistakesState = [count |-> 0],
        !.fallingItems = <<>>,
        !.itemSpawnState =
            [ timeSinceLastSpawnMs |-> 0,
              nextSpawnDelayMs |->
                randomBetween(ITEM_SPAWN_INTERVAL_MIN_MS, ITEM_SPAWN_INTERVAL_MAX_MS, delayU) ],
        !.assessmentState = [pending |-> FALSE],
        !.patientState =
            [ active |-> Null,
              timeSinceLastPatientGoneMs |-> PATIENT_GAP_MS,
              contactDurationMs |-> 0 ],
        !.groundMistakes = <<>>,
        !.groundMistakeSpawnState =
            [ timeSinceLastSpawnMs |-> 0,
              nextSpawnDelayMs |->
                randomBetween(GROUND_MISTAKE_SPAWN_INTERVAL_MIN_MS,
                              GROUND_MISTAKE_SPAWN_INTERVAL_MAX_MS, groundDelayU) ],
        !.lastTimestamp = <<>>,
        !.endGameCalls = 0 ]

\* lines 172-213
startGame(s, delayU, groundDelayU) ==
    [ Did(s, "startGame") EXCEPT
        !.gameState = "playing",
        !.player = playerStart,
        !.knowledgeState = [percent |-> 50, timeSinceErosionMs |-> 0],
        !.mistakesState = [count |-> 0],
        !.scoreState = [patientsTreated |-> 0, assessmentsPassed |-> 0],
        !.fallingItems = <<>>,
        !.itemSpawnState =
            [ timeSinceLastSpawnMs |-> 0,
              nextSpawnDelayMs |->
                randomBetween(ITEM_SPAWN_INTERVAL_MIN_MS, ITEM_SPAWN_INTERVAL_MAX_MS, delayU) ],
        !.assessmentState = [pending |-> FALSE],
        !.patientState =
            [ active |-> Null,
              timeSinceLastPatientGoneMs |-> PATIENT_GAP_MS,
              contactDurationMs |-> 0 ],
        !.groundMistakes = <<>>,
        !.groundMistakeSpawnState =
            [ timeSinceLastSpawnMs |-> 0,
              nextSpawnDelayMs |->
                randomBetween(GROUND_MISTAKE_SPAWN_INTERVAL_MIN_MS,
                              GROUND_MISTAKE_SPAWN_INTERVAL_MAX_MS, groundDelayU) ],
        !.lastTimestamp = <<>>,
        !.endGameCalls = 0 ]

endGame(s) ==
    LET over == [Did(s, "endGame") EXCEPT !.gameState = "game_over", !.endGameCalls = @ + 1]
        totalScore == computeScore(Num(s.scoreState.patientsTreated),
                                   Num(s.scoreState.assessmentsPassed))
    IN  IF totalScore.threw
        THEN [over EXCEPT !.thrown = TRUE]
        ELSE [over EXCEPT !.finalScoreLine = <<totalScore.value>>]

(***************************************************************************)
(* Per-tick updates.  dtMs is the elapsed time in ms; dtSeconds = dtMs/1000 *)
(***************************************************************************)
\* updatePlayer without the landing of lines 365-369
updatePlayer_NoFloor(s, left, right, jump, dtMs) ==
    LET p0 == s.player
        vxL == IF left THEN 0 - PLAYER_SPEED ELSE 0
        facingL == IF left THEN -1 ELSE p0.facing
        vx == IF right THEN vxL + PLAYER_SPEED ELSE vxL
        facing == IF right THEN 1 ELSE facingL
        jumps == jump /\ p0.onGround
        vyJ == IF jumps THEN JUMP_VELOCITY ELSE p0.vy
        onGroundJ == IF jumps THEN FALSE ELSE p0.onGround
        vy == vyJ + (GRAVITY \div 100) * (dtMs \div 10)
        x == p0.x + vx * (dtMs \div 10)
        y == p0.y + vy * (dtMs \div 10)
    IN  [ s EXCEPT !.player =
            [ x |-> clamp(x, 0, 100 * CanvasWidth - 100 * PLAYER_WIDTH),
              y |-> y, vx |-> vx, vy |-> vy,
              onGround |-> onGroundJ, facing |-> facing ] ]

\* updatePlayer with > for the >= of line 365
updatePlayer_StrictLanding(s, left, right, jump, dtMs) ==
    LET p0 == s.player
        vxL == IF left THEN 0 - PLAYER_SPEED ELSE 0
        facingL == IF left THEN -1 ELSE p0.facing
        vx == IF right THEN vxL + PLAYER_SPEED ELSE vxL
        facing == IF right THEN 1 ELSE facingL
        jumps == jump /\ p0.onGround
        vyJ == IF jumps THEN JUMP_VELOCITY ELSE p0.vy
        onGroundJ == IF jumps THEN FALSE ELSE p0.onGround
        vy == vyJ + (GRAVITY \div 100) * (dtMs \div 10)
        x == p0.x + vx * (dtMs \div 10)
        y == p0.y + vy * (dtMs \div 10)
        lands == y + 100 * PLAYER_HEIGHT > FLOOR_Y
    IN  [ s EXCEPT !.player =
            [ x |-> clamp(x, 0, 100 * CanvasWidth - 100 * PLAYER_WIDTH),
              y |-> IF lands THEN FLOOR_Y - 100 * PLAYER_HEIGHT ELSE y,
              vx |-> vx,
              vy |-> IF lands THEN 0 ELSE vy,
              onGround |-> IF lands THEN TRUE ELSE onGroundJ,
              facing |-> facing ] ]

\* lines 344-372
updatePlayer(s, left, right, jump, dtMs) ==
    LET p0 == s.player
        vxL == IF left THEN 0 - PLAYER_SPEED ELSE 0
        facingL == IF left THEN -1 ELSE p0.facing
        vx == IF right THEN vxL + PLAYER_SPEED ELSE vxL
        facing == IF right THEN 1 ELSE facingL
        jumps == jump /\ p0.onGround
        vyJ == IF jumps THEN JUMP_VELOCITY ELSE p0.vy
        onGroundJ == IF jumps THEN FALSE ELSE p0.onGround
        vy == vyJ + (GRAVITY \div 100) * (dtMs \div 10)
        x == p0.x + vx * (dtMs \div 10)
        y == p0.y + vy * (dtMs \div 10)
        lands == y + 100 * PLAYER_HEIGHT >= FLOOR_Y
    IN  [ s EXCEPT !.player =
            [ x |-> clamp(x, 0, 100 * CanvasWidth - 100 * PLAYER_WIDTH),
              y |-> IF lands THEN FLOOR_Y - 100 * PLAYER_HEIGHT ELSE y,
              vx |-> vx,
              vy |-> IF lands THEN 0 ELSE vy,
              onGround |-> IF lands THEN TRUE ELSE onGroundJ,
              facing |-> facing ] ]

spawnRandomItem(s, roll, u) ==
    LET type == IF roll > 825 THEN "mistake" ELSE "knowledge"
        width == 22
        height == 26
    IN  [ Did(s, "spawnRandomItem") EXCEPT !.fallingItems = Append(@,
            [ type |-> type,
              x |-> 100 * randomBetween(20, CanvasWidth - 20 - width, u),
              y |-> 0 - 100 * height,
              width |-> 100 * width,
              height |-> 100 * height,
              vy |-> IF type = "knowledge" THEN 180 ELSE 260 ]) ]

spawnAssessmentItem(s, u) ==
    LET width == 26
        height == 30
    IN  [ Did(s, "spawnAssessmentItem") EXCEPT !.fallingItems = Append(@,
            [ type |-> "assessment",
              x |-> 100 * randomBetween(20, CanvasWidth - 20 - width, u),
              y |-> 0 - 100 * height,
              width |-> 100 * width,
              height |-> 100 * height,
              vy |-> 133 ]) ]

\* erode with the remainder of the accumulator carried over a firing
erode_CarriesRemainder(s, dtMs) ==
    LET t == s.knowledgeState.timeSinceErosionMs + dtMs
    IN  IF t >= KNOWLEDGE_EROSION_INTERVAL_MS
        THEN IF s.knowledgeState.percent > KNOWLEDGE_MIN
             THEN [ Did(s, "erosion") EXCEPT !.knowledgeState =
                      [ percent |-> clamp(s.knowledgeState.percent - KNOWLEDGE_EROSION_STEP,
                                          KNOWLEDGE_MIN, KNOWLEDGE_MAX),
                        timeSinceErosionMs |-> t - KNOWLEDGE_EROSION_INTERVAL_MS ] ]
             ELSE [ Did(s, "erosionAtFloor") EXCEPT
                      !.knowledgeState.timeSinceErosionMs = t - KNOWLEDGE_EROSION_INTERVAL_MS ]
        ELSE [ s EXCEPT !.knowledgeState.timeSinceErosionMs = t ]

\* erode without the floor: neither the test of line 413 nor the clamp
erode_NoFloor(s, dtMs) ==
    LET t == s.knowledgeState.timeSinceErosionMs + dtMs
    IN  IF t >= KNOWLEDGE_EROSION_INTERVAL_MS
        THEN [ Did(s, "erosion") EXCEPT !.knowledgeState =
                 [ percent |-> s.knowledgeState.percent - KNOWLEDGE_EROSION_STEP,
                   timeSinceErosionMs |-> 0 ] ]
        ELSE [ s EXCEPT !.knowledgeState.timeSinceErosionMs = t ]

\* lines 411-422: the erosion timer
erode(s, dtMs) ==
    LET t == s.knowledgeState.timeSinceErosionMs + dtMs
    IN  IF t >= KNOWLEDGE_EROSION_INTERVAL_MS
        THEN IF s.knowledgeState.percent > KNOWLEDGE_MIN
             THEN [ Did(s, "erosion") EXCEPT !.knowledgeState =
                      [ percent |-> clamp(s.knowledgeState.percent - KNOWLEDGE_EROSION_STEP,
                                          KNOWLEDGE_MIN, KNOWLEDGE_MAX),
                        timeSinceErosionMs |-> 0 ] ]
             ELSE [ Did(s, "erosionAtFloor") EXCEPT !.knowledgeState.timeSinceErosionMs = 0 ]
        ELSE [ s EXCEPT !.knowledgeState.timeSinceErosionMs = t ]

\* lines 424-430: the assessment trigger (percent is an integer: Math.round keeps it)
assessmentDue(s) ==
    ~ s.assessmentState.pending /\ s.knowledgeState.percent >= KNOWLEDGE_MAX

\* triggerAssessment without the test of the pending flag
triggerAssessment_IgnoresPending(s, assessU) ==
    IF s.knowledgeState.percent >= KNOWLEDGE_MAX
    THEN spawnAssessmentItem([s EXCEPT !.assessmentState.pending = TRUE], assessU)
    ELSE s

triggerAssessment(s, assessU) ==
    IF assessmentDue(s)
    THEN spawnAssessmentItem([s EXCEPT !.assessmentState.pending = TRUE], assessU)
    ELSE s

\* lines 432-440: the falling-item spawn timer
itemSpawnDue(s, dtMs) ==
    s.itemSpawnState.timeSinceLastSpawnMs + dtMs >= s.itemSpawnState.nextSpawnDelayMs

spawnTimer(s, roll, itemU, delayU, dtMs) ==
    IF itemSpawnDue(s, dtMs)
    THEN [ spawnRandomItem(s, roll, itemU) EXCEPT !.itemSpawnState =
             [ timeSinceLastSpawnMs |-> 0,
               nextSpawnDelayMs |->
                 randomBetween(ITEM_SPAWN_INTERVAL_MIN_MS, ITEM_SPAWN_INTERVAL_MAX_MS, delayU) ] ]
    ELSE [ s EXCEPT !.itemSpawnState.timeSinceLastSpawnMs = @ + dtMs ]

updateKnowledgeAndItems(s, in, dtMs) ==
    spawnTimer(triggerAssessment(erode(s, dtMs), in.assessU),
               in.roll, in.itemU, in.delayU, dtMs)

\* fallingItems.splice(i, 1), i counted from 1
splice(seq, i) == SubSeq(seq, 1, i - 1) \o SubSeq(seq, i + 1, Len(seq))

\* lines 454-460
catchKnowledge(s) ==
    [ Did(s, "catchKnowledge") EXCEPT !.knowledgeState.percent =
        clamp(@ + KNOWLEDGE_PICKUP_AMOUNT, KNOWLEDGE_MIN, KNOWLEDGE_MAX) ]

\* lines 461-471; the caller returns when the session is over
hitMistake(s) ==
    LET hit == [ Did(s, "hitMistake") EXCEPT
                   !.mistakesState.count = clamp(@ + 1, 0, MAX_MISTAKES) ]
    IN  IF hit.mistakesState.count >= MAX_MISTAKES THEN endGame(hit) ELSE hit

\* catchAssessment without the reset of the meter
catchAssessment_KeepsMeter(s) ==
    [ Did(s, "catchAssessment") EXCEPT !.mistakesState.count = 0,
               !.assessmentState.pending = FALSE,
               !.scoreState.assessmentsPassed = @ + 1 ]

\* lines 472-478
catchAssessment(s) ==
    [ Did(s, "catchAssessment") EXCEPT !.mistakesState.count = 0,
               !.knowledgeState.percent = 50,
               !.assessmentState.pending = FALSE,
               !.scoreState.assessmentsPassed = @ + 1 ]

\* leaveStage without the test of line 485
leaveStage_KeepsPending(s, i) ==
    [ Did(s, "leaveStage") EXCEPT !.fallingItems = splice(@, i) ]

\* lines 484-489
leaveStage(s, i) ==
    LET item == s.fallingItems[i]
        cleared == IF item.type = "assessment"
                   THEN [Did(s, "missAssessment") EXCEPT !.assessmentState.pending = FALSE]
                   ELSE Did(s, "leaveStage")
    IN  [ cleared EXCEPT !.fallingItems = splice(@, i) ]

\* lines 450-489: the body of the loop for the item at index i
itemStep(s, i, playerBox, dtMs) ==
    LET moved == [ s EXCEPT !.fallingItems[i].y = @ + s.fallingItems[i].vy * (dtMs \div 10) ]
        item == moved.fallingItems[i]
    IN  IF intersects(playerBox, item)
        THEN CASE item.type = "knowledge" ->
                    [ catchKnowledge(moved) EXCEPT !.fallingItems = splice(@, i) ]
               [] item.type = "mistake" ->
                    LET hit == hitMistake(moved)
                    IN  IF hit.gameState = "game_over"
                        THEN hit
                        ELSE [ hit EXCEPT !.fallingItems = splice(@, i) ]
               [] item.type = "assessment" ->
                    [ catchAssessment(moved) EXCEPT !.fallingItems = splice(@, i) ]
        ELSE IF item.y > 100 * (CanvasHeight + 40)
        THEN leaveStage(moved, i)
        ELSE moved

RECURSIVE fallingLoop(_, _, _, _)
fallingLoop(s, i, playerBox, dtMs) ==
    IF i < 1 \/ s.gameState = "game_over" \/ s.thrown
    THEN s
    ELSE fallingLoop(itemStep(s, i, playerBox, dtMs), i - 1, playerBox, dtMs)

updateFallingItems(s, dtMs) ==
    fallingLoop(s, Len(s.fallingItems), getPlayerHitBox(s.player), dtMs)

\* lines 498-516: no patient is active
patientArrives(s, dtMs) ==
    s.patientState.timeSinceLastPatientGoneMs + dtMs >= PATIENT_GAP_MS

\* awaitPatient without the test of line 500
awaitPatient_NoGap(s, u, dtMs) ==
    IF TRUE
    THEN LET width == 28
             height == 32
         IN  [ Did(s, "patientArrives") EXCEPT !.patientState =
                 [ active |->
                     [ x |-> 100 * randomBetween(20, CanvasWidth - 20 - width, u),
                       y |-> FLOOR_Y - 100 * height,
                       width |-> 100 * width,
                       height |-> 100 * height,
                       lifetimeMs |-> 0 ],
                   contactDurationMs |-> 0,
                   timeSinceLastPatientGoneMs |-> 0 ] ]
    ELSE [ s EXCEPT !.patientState.timeSinceLastPatientGoneMs = @ + dtMs ]

awaitPatient(s, u, dtMs) ==
    IF patientArrives(s, dtMs)
    THEN LET width == 28
             height == 32
         IN  [ Did(s, "patientArrives") EXCEPT !.patientState =
                 [ active |->
                     [ x |-> 100 * randomBetween(20, CanvasWidth - 20 - width, u),
                       y |-> FLOOR_Y - 100 * height,
                       width |-> 100 * width,
                       height |-> 100 * height,
                       lifetimeMs |-> 0 ],
                   contactDurationMs |-> 0,
                   timeSinceLastPatientGoneMs |-> 0 ] ]
    ELSE [ s EXCEPT !.patientState.timeSinceLastPatientGoneMs = @ + dtMs ]

\* patientGone without the reset of the contact accumulator (lines 548, 554)
patientGone_KeepsContact(s, why) ==
    [ Did(s, why) EXCEPT !.patientState.active = Null,
                         !.patientState.timeSinceLastPatientGoneMs = 0 ]

\* lines 543-548 and 550-554: the patient leaves, treated or expired
patientGone(s, why) ==
    [ Did(s, why) EXCEPT !.patientState =
        [ active |-> Null, timeSinceLastPatientGoneMs |-> 0, contactDurationMs |-> 0 ] ]

\* lines 533-534 (percent is an integer: Math.round keeps it)
canTreat(s) == s.knowledgeState.percent >= KNOWLEDGE_WARNING_THRESHOLD

\* attendPatient with the expiry test of line 550 ahead of the treatment test
attendPatient_ExpiryFirst(s, dtMs) ==
    LET aged == [ s EXCEPT !.patientState.active.lifetimeMs = @ + dtMs ]
        patient == aged.patientState.active
        playerBox == [ x |-> s.player.x, y |-> s.player.y,
                       width |-> 100 * PLAYER_WIDTH, height |-> 100 * PLAYER_HEIGHT ]
        patientBox == [ x |-> patient.x, y |-> patient.y,
                        width |-> patient.width, height |-> patient.height ]
        contact == canTreat(s) /\ intersects(playerBox, patientBox)
        timed == IF contact
                 THEN [ aged EXCEPT !.patientState.contactDurationMs = @ + dtMs ]
                 ELSE [ aged EXCEPT !.patientState.contactDurationMs = 0 ]
    IN  IF patient.lifetimeMs >= PATIENT_VISIBLE_MS
        THEN patientGone(timed, "expired")
        ELSE IF contact /\ timed.patientState.contactDurationMs >= PATIENT_TREAT_DURATION_MS
        THEN patientGone([ timed EXCEPT !.scoreState.patientsTreated = @ + 1 ], "treated")
        ELSE timed

\* attendPatient without the reset of lines 546-548
attendPatient_NoReset(s, dtMs) ==
    LET aged == [ s EXCEPT !.patientState.active.lifetimeMs = @ + dtMs ]
        patient == aged.patientState.active
        playerBox == [ x |-> s.player.x, y |-> s.player.y,
                       width |-> 100 * PLAYER_WIDTH, height |-> 100 * PLAYER_HEIGHT ]
        patientBox == [ x |-> patient.x, y |-> patient.y,
                        width |-> patient.width, height |-> patient.height ]
        contact == canTreat(s) /\ intersects(playerBox, patientBox)
        timed == IF contact
                 THEN [ aged EXCEPT !.patientState.contactDurationMs = @ + dtMs ]
                 ELSE aged
    IN  IF contact /\ timed.patientState.contactDurationMs >= PATIENT_TREAT_DURATION_MS
        THEN patientGone([ timed EXCEPT !.scoreState.patientsTreated = @ + 1 ], "treated")
        ELSE IF patient.lifetimeMs >= PATIENT_VISIBLE_MS
        THEN patientGone(timed, "expired")
        ELSE timed

\* lines 518-555: a patient is active
attendPatient(s, dtMs) ==
    LET aged == [ s EXCEPT !.patientState.active.lifetimeMs = @ + dtMs ]
        patient == aged.patientState.active
        playerBox == [ x |-> s.player.x, y |-> s.player.y,
                       width |-> 100 * PLAYER_WIDTH, height |-> 100 * PLAYER_HEIGHT ]
        patientBox == [ x |-> patient.x, y |-> patient.y,
                        width |-> patient.width, height |-> patient.height ]
        contact == canTreat(s) /\ intersects(playerBox, patientBox)
        timed == IF contact
                 THEN [ aged EXCEPT !.patientState.contactDurationMs = @ + dtMs ]
                 ELSE [ aged EXCEPT !.patientState.contactDurationMs = 0 ]
    IN  IF contact /\ timed.patientState.contactDurationMs >= PATIENT_TREAT_DURATION_MS
        THEN patientGone([ timed EXCEPT !.scoreState.patientsTreated = @ + 1 ], "treated")
        ELSE IF patient.lifetimeMs >= PATIENT_VISIBLE_MS
        THEN patientGone(timed, "expired")
        ELSE timed

updatePatient(s, in, dtMs) ==
    IF s.patientState.active = Null
    THEN awaitPatient(s, in.patientU, dtMs)
    ELSE attendPatient(s, dtMs)

\* lines 560-572
spawnGroundMistake(s, u) ==
    LET width == 22
        height == 26
    IN  [ Did(s, "spawnGroundMistake") EXCEPT !.groundMistakes = Append(@,
            [ x |-> 100 * randomBetween(20, CanvasWidth - 20 - width, u),
              y |-> FLOOR_Y - 100 * height,
              width |-> 100 * width,
              height |-> 100 * height,
              lifetimeMs |-> 0 ]) ]

\* lines 579-590: the ground-mistake spawn timer
groundSpawnDue(s, dtMs) ==
    s.groundMistakeSpawnState.timeSinceLastSpawnMs + dtMs
        >= s.groundMistakeSpawnState.nextSpawnDelayMs

groundSpawnTimer(s, u, delayU, dtMs) ==
    IF groundSpawnDue(s, dtMs)
    THEN [ spawnGroundMistake(s, u) EXCEPT !.groundMistakeSpawnState =
             [ timeSinceLastSpawnMs |-> 0,
               nextSpawnDelayMs |->
                 randomBetween(GROUND_MISTAKE_SPAWN_INTERVAL_MIN_MS,
                               GROUND_MISTAKE_SPAWN_INTERVAL_MAX_MS, delayU) ] ]
    ELSE [ s EXCEPT !.groundMistakeSpawnState.timeSinceLastSpawnMs = @ + dtMs ]

\* hitGroundMistake without the call of endGame
hitGroundMistake_NoEnd(s, i) ==
    [ Did(s, "hitGroundMistake") EXCEPT
        !.mistakesState.count = clamp(@ + 1, 0, MAX_MISTAKES),
        !.groundMistakes = splice(@, i) ]

\* lines 598-609: the player steps on the ground mistake at index i
hitGroundMistake(s, i) ==
    LET hit == [ Did(s, "hitGroundMistake") EXCEPT
                   !.mistakesState.count = clamp(@ + 1, 0, MAX_MISTAKES),
                   !.groundMistakes = splice(@, i) ]
    IN  IF hit.mistakesState.count >= MAX_MISTAKES THEN endGame(hit) ELSE hit

\* groundStep with > for the >= of line 613
groundStep_ExpiresLate(s, i, playerBox, dtMs) ==
    LET aged == [ s EXCEPT !.groundMistakes[i].lifetimeMs = @ + dtMs ]
        ob == aged.groundMistakes[i]
    IN  IF intersects(playerBox, ob)
        THEN hitGroundMistake(aged, i)
        ELSE IF ob.lifetimeMs > GROUND_MISTAKE_DURATION_MS
        THEN [ Did(aged, "groundMistakeExpired") EXCEPT !.groundMistakes = splice(@, i) ]
        ELSE aged

\* lines 595-615: the body of the loop for the ground mistake at index i
groundStep(s, i, playerBox, dtMs) ==
    LET aged == [ s EXCEPT !.groundMistakes[i].lifetimeMs = @ + dtMs ]
        ob == aged.groundMistakes[i]
    IN  IF intersects(playerBox, ob)
        THEN hitGroundMistake(aged, i)
        ELSE IF ob.lifetimeMs >= GROUND_MISTAKE_DURATION_MS
        THEN [ Did(aged, "groundMistakeExpired") EXCEPT !.groundMistakes = splice(@, i) ]
        ELSE aged

RECURSIVE groundLoop(_, _, _, _)
groundLoop(s, i, playerBox, dtMs) ==
    IF i < 1 \/ s.gameState = "game_over" \/ s.thrown
    THEN s
    ELSE groundLoop(groundStep(s, i, playerBox, dtMs), i - 1, playerBox, dtMs)

updateGroundMistakes(s, in, dtMs) ==
    LET spawned == groundSpawnTimer(s, in.groundU, in.groundDelayU, dtMs)
    IN  groundLoop(spawned, Len(spawned.groundMistakes),
                   getPlayerHitBox(spawned.player), dtMs)

(***************************************************************************)
(* The frame callback                                                      *)
(***************************************************************************)
\* elapsedMs without lines 898-900: a null lastTimestamp counts as 0
elapsedMs_NullIsZero(s, timestamp) ==
    LET last == IF s.lastTimestamp = <<>> THEN 0 ELSE s.lastTimestamp[1]
    IN  timestamp - last

\* lines 898-904: the elapsed time of the frame with this timestamp
elapsedMs(s, timestamp) ==
    LET last == IF s.lastTimestamp = <<>> THEN timestamp ELSE s.lastTimestamp[1]
    IN  timestamp - last

requestAnimationFrame(s) == Did(s, "requestAnimationFrame")

\* lines 898-905: the tick up to the call of updateFallingItems
beforeFalling(s, in) ==
    LET dtMs == elapsedMs(s, in.timestamp)
        stamped == [s EXCEPT !.lastTimestamp = <<in.timestamp>>]
    IN  updateKnowledgeAndItems(
          updatePlayer(stamped, in.keys[1], in.keys[2], in.keys[3], dtMs), in, dtMs)

\* playingFrame without the early exit of lines 908-911
playingFrame_NoEarlyExit(s, in) ==
      LET dtMs == elapsedMs(s, in.timestamp)
          fallen == updateFallingItems(beforeFalling(s, in), dtMs)
          trodden == updateGroundMistakes(updatePatient(fallen, in, dtMs), in, dtMs)
      IN  IF fallen.thrown THEN fallen
          ELSE IF trodden.thrown THEN trodden
          ELSE requestAnimationFrame(trodden)

\* playingFrame whose exit after a fatal ground mistake (lines 915-918) returns
\* without requesting the next frame
playingFrame_GroundExitStops(s, in) ==
    LET dtMs == elapsedMs(s, in.timestamp)
        fallen == updateFallingItems(beforeFalling(s, in), dtMs)
        trodden == updateGroundMistakes(updatePatient(fallen, in, dtMs), in, dtMs)
    IN  IF fallen.thrown THEN fallen
        ELSE IF fallen.gameState = "game_over" THEN requestAnimationFrame(fallen)
        ELSE IF trodden.thrown THEN trodden
        ELSE IF trodden.gameState = "game_over" THEN trodden
        ELSE requestAnimationFrame(trodden)

\* The tick of gameLoop, lines 898-927
playingFrame(s, in) ==
      LET dtMs == elapsedMs(s, in.timestamp)
          fallen == updateFallingItems(beforeFalling(s, in), dtMs)
          trodden == updateGroundMistakes(updatePatient(fallen, in, dtMs), in, dtMs)
      IN  IF fallen.thrown THEN fallen
          ELSE IF fallen.gameState = "game_over" THEN requestAnimationFrame(fallen)
          ELSE IF trodden.thrown THEN trodden
          ELSE IF trodden.gameState = "game_over" THEN requestAnimationFrame(trodden)
          ELSE requestAnimationFrame(trodden)

\* gameLoop without the test of lines 893-896
gameLoop_AlwaysTicks(s, in) == playingFrame(s, in)

\* lines 892-928: gameLoop(timestamp); an exception leaves it at once
gameLoop(s, in) ==
    IF s.gameState # "playing"
    THEN requestAnimationFrame(s)
    ELSE playingFrame(s, in)

\* lines 930-934
startButtonClick(s, delayU, groundDelayU) ==
    IF s.gameState = "start" \/ s.gameState = "game_over"
    THEN startGame(s, delayU, groundDelayU)
    ELSE s

\* restartButtonClick with the guard of the start button
restartButtonClick_StartGuard(s, delayU, groundDelayU) ==
    IF s.gameState = "start" \/ s.gameState = "game_over"
    THEN startGame(s, delayU, groundDelayU)
    ELSE s

\* lines 936-940
restartButtonClick(s, delayU, groundDelayU) ==
    IF s.gameState = "game_over"
    THEN startGame(s, delayU, groundDelayU)
    ELSE s

\* The callbacks a handler requested
Requests(s) == Cardinality({ k \in 1..Len(s.events) : s.events[k] = "requestAnimationFrame" })

(***************************************************************************)
(* Inputs of a frame: the timestamp, the key intents read by updatePlayer  *)
(* and one Math.random() draw for each call the frame makes.               *)
(***************************************************************************)
NoDraw == {0}

FrameInputs(s, timestamp) ==
    LET dtMs == elapsedMs(s, timestamp)
        playing == s.gameState = "playing"
        eroded == erode(s, dtMs)
    IN  [ timestamp : {timestamp},
          keys : IF playing THEN Intents ELSE {<<FALSE, FALSE, FALSE>>},
          assessU : IF playing /\ assessmentDue(eroded) THEN PositionDraws ELSE NoDraw,
          roll : IF playing /\ itemSpawnDue(s, dtMs) THEN Rolls ELSE NoDraw,
          itemU : IF playing /\ itemSpawnDue(s, dtMs) THEN PositionDraws ELSE NoDraw,
          delayU : IF playing /\ itemSpawnDue(s, dtMs) THEN ItemDelayDraws ELSE NoDraw,
          patientU : IF playing /\ s.patientState.active = Null /\ patientArrives(s, dtMs)
                     THEN PositionDraws ELSE NoDraw,
          groundU : IF playing /\ groundSpawnDue(s, dtMs) THEN PositionDraws ELSE NoDraw,
          groundDelayU : IF playing /\ groundSpawnDue(s, dtMs) THEN GroundDelayDraws ELSE NoDraw ]

(***************************************************************************)
(* Actions                                                                 *)
(***************************************************************************)
Install(s) ==
    /\ gameState' = s.gameState
    /\ player' = s.player
    /\ knowledgeState' = s.knowledgeState
    /\ mistakesState' = s.mistakesState
    /\ scoreState' = s.scoreState
    /\ fallingItems' = s.fallingItems
    /\ itemSpawnState' = s.itemSpawnState
    /\ assessmentState' = s.assessmentState
    /\ patientState' = s.patientState
    /\ groundMistakes' = s.groundMistakes
    /\ groundMistakeSpawnState' = s.groundMistakeSpawnState
    /\ lastTimestamp' = s.lastTimestamp
    /\ finalScoreLine' = s.finalScoreLine
    /\ endGameCalls' = s.endGameCalls
    /\ events' = IF s.events = <<>> THEN events ELSE s.events

\* Module load, lines 67-127 and 949
Loaded ==
    /\ gameState = "start"
    /\ player = playerStart
    /\ knowledgeState = [percent |-> 50, timeSinceErosionMs |-> 0]
    /\ mistakesState = [count |-> 0]
    /\ scoreState = [patientsTreated |-> 0, assessmentsPassed |-> 0]
    /\ fallingItems = <<>>
    /\ \E u \in ItemDelayDraws :
         itemSpawnState =
           [ timeSinceLastSpawnMs |-> 0,
             nextSpawnDelayMs |->
               randomBetween(ITEM_SPAWN_INTERVAL_MIN_MS, ITEM_SPAWN_INTERVAL_MAX_MS, u) ]
    /\ assessmentState = [pending |-> FALSE]
    /\ patientState = [ active |-> Null,
                        timeSinceLastPatientGoneMs |-> PATIENT_GAP_MS,
                        contactDurationMs |-> 0 ]
    /\ groundMistakes = <<>>
    /\ \E u \in GroundDelayDraws :
         groundMistakeSpawnState =
           [ timeSinceLastSpawnMs |-> 0,
             nextSpawnDelayMs |->
               randomBetween(GROUND_MISTAKE_SPAWN_INTERVAL_MIN_MS,
                             GROUND_MISTAKE_SPAWN_INTERVAL_MAX_MS, u) ]
    /\ lastTimestamp = <<>>
    /\ finalScoreLine = <<>>
    /\ pendingFrames = 1
    /\ endGameCalls = 0
    /\ events = <<"requestAnimationFrame">>
    /\ clock = 0
    /\ scoreCall = <<>>

\* The page on a display whose frame interval is one of FrameGaps
Init == Loaded /\ frameGap \in FrameGaps

\* The page on a display whose frames are half a second apart: accumulators
\* meet the durations of 2000 ms exactly
InitHalfSecond == Loaded /\ frameGap \in HalfSecondGaps

\* The browser runs a requested frame callback, gap ms after the one before.
GameLoop ==
    /\ pendingFrames >= 1
    /\ clock + frameGap <= MaxFrames * frameGap
    /\ clock' = clock + frameGap
    /\ \E in \in FrameInputs(State, clock + frameGap) :
         LET after == gameLoop(State, in)
         IN  /\ Install(after)
             /\ pendingFrames' = pendingFrames - 1 + Requests(after)
    /\ UNCHANGED <<frameGap, scoreCall>>

\* A click on the start button
StartButtonClick ==
    /\ \E delayU \in ItemDelayDraws, groundDelayU \in GroundDelayDraws :
         Install(startButtonClick(State, delayU, groundDelayU))
    /\ UNCHANGED <<pendingFrames, clock, frameGap, scoreCall>>

\* A click on the restart button
RestartButtonClick ==
    /\ \E delayU \in ItemDelayDraws, groundDelayU \in GroundDelayDraws :
         Install(restartButtonClick(State, delayU, groundDelayU))
    /\ UNCHANGED <<pendingFrames, clock, frameGap, scoreCall>>

\* A caller (tests.js) applies window.CertQuest.computeScore
CallComputeScore ==
    /\ \E p \in ScoreArgs, a \in ScoreArgs :
         scoreCall' = <<p, a, computeScore(p, a)>>
    /\ UNCHANGED <<gameState, player, knowledgeState, mistakesState, scoreState,
                   fallingItems, itemSpawnState, assessmentState, patientState,
                   groundMistakes, groundMistakeSpawnState, lastTimestamp,
                   finalScoreLine, pendingFrames, endGameCalls, events, clock, frameGap>>

Next == GameLoop \/ StartButtonClick \/ RestartButtonClick

\* The game: frames and clicks
Spec == Init /\ [][Next]_vars

\* Every combination of the three key intents, and the elapsed times of a
\* call of updatePlayer
AllIntents == { <<l, r, j>> : l \in BOOLEAN, r \in BOOLEAN, j \in BOOLEAN }
ElapsedTimes == {0, 100, 600}

\* gameLoop applies updatePlayer to the playing session (line 905)
UpdatePlayerCall ==
    /\ gameState = "playing"
    /\ \E keys \in AllIntents, dtMs \in ElapsedTimes :
         /\ clock + dtMs <= MaxPlayerMs
         /\ clock' = clock + dtMs
         /\ player' = updatePlayer(State, keys[1], keys[2], keys[3], dtMs).player
    /\ UNCHANGED <<gameState, knowledgeState, mistakesState, scoreState,
                   fallingItems, itemSpawnState, assessmentState, patientState,
                   groundMistakes, groundMistakeSpawnState, lastTimestamp,
                   finalScoreLine, pendingFrames, endGameCalls, events, frameGap, scoreCall>>

NextPlayer == StartButtonClick \/ UpdatePlayerCall

\* The player's motion alone: a started session and calls of updatePlayer
SpecPlayer == Init /\ [][NextPlayer]_vars

\* The elapsed times of a run of the erosion timer: none, short of the
\* interval, the interval itself, and past it
ErosionTimes == {0, 700, 2900, 3000, 6500}

\* updateKnowledgeAndItems runs the erosion timer of the playing session
\* (lines 411-422)
ErodeCall ==
    /\ gameState = "playing"
    /\ \E dtMs \in ErosionTimes :
         /\ clock + dtMs <= MaxErosionMs
         /\ clock' = clock + dtMs
         /\ LET after == erode(State, dtMs)
            IN  /\ knowledgeState' = after.knowledgeState
                /\ events' = IF after.events = <<>> THEN <<"tick">> ELSE after.events
    /\ UNCHANGED <<gameState, player, mistakesState, scoreState,
                   fallingItems, itemSpawnState, assessmentState, patientState,
                   groundMistakes, groundMistakeSpawnState, lastTimestamp,
                   finalScoreLine, pendingFrames, endGameCalls, frameGap, scoreCall>>

NextErosion == StartButtonClick \/ ErodeCall

\* The erosion of the meter alone: a started session and runs of its timer
SpecErosion == Init /\ [][NextErosion]_vars

\* The game at half-second frames
SpecHalfSecond == InitHalfSecond /\ [][Next]_vars

NextScore == CallComputeScore

\* The scoring function alone, applied to the arguments of ScoreArgs
SpecScore == Init /\ [][NextScore]_vars

(***************************************************************************)
(* Claims                                                                  *)
(***************************************************************************)
\* The simulation state the claims speak of
Sim == <<gameState, player, knowledgeState, mistakesState, scoreState,
         fallingItems, itemSpawnState, assessmentState, patientState,
         groundMistakes, groundMistakeSpawnState, lastTimestamp>>

SimOf(s) == <<s.gameState, s.player, s.knowledgeState, s.mistakesState, s.scoreState,
              s.fallingItems, s.itemSpawnState, s.assessmentState, s.patientState,
              s.groundMistakes, s.groundMistakeSpawnState, s.lastTimestamp>>

Happened(what) == \E k \in 1..Len(events) : events[k] = what

Assessments(items) == { k \in 1..Len(items) : items[k].type = "assessment" }

\* The game is as the module load left it
GameAsLoaded ==
    /\ gameState = "start"
    /\ player = playerStart
    /\ knowledgeState = [percent |-> 50, timeSinceErosionMs |-> 0]
    /\ mistakesState = [count |-> 0]
    /\ scoreState = [patientsTreated |-> 0, assessmentsPassed |-> 0]
    /\ fallingItems = <<>> /\ groundMistakes = <<>>
    /\ itemSpawnState.timeSinceLastSpawnMs = 0
    /\ groundMistakeSpawnState.timeSinceLastSpawnMs = 0
    /\ assessmentState = [pending |-> FALSE]
    /\ patientState.active = Null
    /\ lastTimestamp = <<>> /\ finalScoreLine = <<>>
    /\ pendingFrames = 1 /\ endGameCalls = 0 /\ clock = 0

Counts(v) == v.type = "number" /\ v.num >= 0

\* C1: for non-negative integers p and a, computeScore(p, a) returns exactly
\* p + 2*a and changes no game state; (0,0) gives 0, (5,0) 5, (0,3) 6, (4,2) 8.
C1_ScoreIsPatientsPlusTwiceAssessments ==
    /\ scoreCall # <<>> =>
         ( Counts(scoreCall[1]) /\ Counts(scoreCall[2])
             => scoreCall[3] = Returned(scoreCall[1].num + 2 * scoreCall[2].num) )
    /\ computeScore(Num(0), Num(0)) = Returned(0)
    /\ computeScore(Num(5), Num(0)) = Returned(5)
    /\ computeScore(Num(0), Num(3)) = Returned(6)
    /\ computeScore(Num(4), Num(2)) = Returned(8)
    /\ GameAsLoaded

C1_Witness ==
    /\ scoreCall # <<>>
    /\ scoreCall[1] = Num(4) /\ scoreCall[2] = Num(2)
    /\ scoreCall[3] = Returned(8)

\* C2: computeScore throws whenever either argument is not a number or is
\* negative, in either position; and endGame never meets that error, both
\* counters being non-negative numbers throughout a session.
C2_BadInputsThrowAndEndGameNeverDoes ==
    /\ \A p \in ScoreArgs, a \in ScoreArgs :
         (~ Counts(p) \/ ~ Counts(a)) => computeScore(p, a).threw
    /\ scoreState.patientsTreated >= 0 /\ scoreState.assessmentsPassed >= 0
    /\ ~ computeScore(Num(scoreState.patientsTreated),
                      Num(scoreState.assessmentsPassed)).threw
    /\ gameState = "game_over" => finalScoreLine # <<>> /\ pendingFrames = 1

C2_Witness ==
    /\ gameState = "game_over" /\ Happened("endGame")
    /\ finalScoreLine # <<>> /\ pendingFrames = 1

\* C3: the knowledge meter is within [0, 100] in every reachable state, and
\* an erosion firing at 0 leaves it at 0.
C3_MeterStaysInRange ==
    /\ knowledgeState.percent >= KNOWLEDGE_MIN
    /\ knowledgeState.percent <= KNOWLEDGE_MAX
    /\ knowledgeState.percent = KNOWLEDGE_MIN =>
         erode(State, KNOWLEDGE_EROSION_INTERVAL_MS).knowledgeState.percent = KNOWLEDGE_MIN

C3_Witness ==
    /\ gameState = "playing"
    /\ Happened("erosionAtFloor")
    /\ knowledgeState.percent = KNOWLEDGE_MIN

\* C4: the mistake counter is within [0, MAX_MISTAKES]; endGame runs at most
\* once in a session, and it runs on the tick where the counter reaches
\* MAX_MISTAKES, right after the hit (falling or ground) that raised it.
C4_EndGameOnceAtMaxMistakes ==
    /\ mistakesState.count >= 0 /\ mistakesState.count <= MAX_MISTAKES
    /\ endGameCalls <= 1
    /\ (mistakesState.count = MAX_MISTAKES) <=> (gameState = "game_over")
    /\ (gameState = "game_over") <=> (endGameCalls = 1)
    /\ \A k \in 1..Len(events) :
         events[k] = "endGame" =>
           /\ k > 1
           /\ events[k - 1] \in {"hitMistake", "hitGroundMistake"}
           /\ mistakesState.count = MAX_MISTAKES
           /\ \A j \in 1..Len(events) : events[j] = "endGame" => j = k

C4_Witness ==
    /\ gameState = "game_over" /\ endGameCalls = 1
    /\ mistakesState.count = MAX_MISTAKES
    /\ \E k \in 2..Len(events) :
         events[k] = "endGame" /\ events[k - 1] = "hitGroundMistake"

\* C5: once the session is over, a frame callback changes no simulation
\* state, and the state leaves "game_over" only through startGame.
C5_GameOverIsFrozenUntilStartGame ==
    [][ gameState = "game_over" =>
          \/ Sim' = Sim
          \/ \E delayU \in ItemDelayDraws, groundDelayU \in GroundDelayDraws :
               Sim' = SimOf(startGame(State, delayU, groundDelayU)) ]_vars

C5_Witness ==
    /\ gameState = "game_over"
    /\ lastTimestamp # <<>>
    /\ clock > lastTimestamp[1]
    /\ events = <<"requestAnimationFrame">>

\* C6: the falling items hold at most one assessment item, and they hold one
\* exactly when assessmentState.pending is true.
C6_AtMostOneAssessmentPending ==
    /\ Cardinality(Assessments(fallingItems)) <= 1
    /\ (Cardinality(Assessments(fallingItems)) = 1) <=> assessmentState.pending

C6_Witness ==
    /\ gameState = "playing"
    /\ assessmentState.pending
    /\ Cardinality(Assessments(fallingItems)) = 1
    /\ ~ Happened("spawnAssessmentItem")

\* The states in which the loop of updateFallingItems enters its body, each
\* with the index it is about to handle
RECURSIVE FallingStages(_, _, _, _)
FallingStages(s, i, playerBox, dtMs) ==
    IF i < 1 \/ s.gameState = "game_over" \/ s.thrown
    THEN {}
    ELSE {<<s, i>>} \cup FallingStages(itemStep(s, i, playerBox, dtMs), i - 1, playerBox, dtMs)

\* The item at index i once line 451 has moved it
Moved(s, i, dtMs) ==
    [ s.fallingItems[i] EXCEPT !.y = @ + s.fallingItems[i].vy * (dtMs \div 10) ]

\* P(s, i, after, playerBox, dtMs) holds of every item step of every frame
\* that can follow the current state
EveryItemStep(P(_, _, _, _, _)) ==
    gameState = "playing" =>
      \A in \in FrameInputs(State, clock + frameGap) :
        LET dtMs == elapsedMs(State, in.timestamp)
            b == beforeFalling(State, in)
            playerBox == getPlayerHitBox(b.player)
        IN  \A st \in FallingStages(b, Len(b.fallingItems), playerBox, dtMs) :
              P(st[1], st[2], itemStep(st[1], st[2], playerBox, dtMs), playerBox, dtMs)

AssessmentCaught(s, i, after, playerBox, dtMs) ==
    ( /\ s.fallingItems[i].type = "assessment"
      /\ intersects(playerBox, Moved(s, i, dtMs)) )
    => /\ after.mistakesState.count = 0
       /\ after.knowledgeState.percent = 50
       /\ after.assessmentState.pending = FALSE
       /\ after.scoreState.assessmentsPassed = s.scoreState.assessmentsPassed + 1
       /\ after.scoreState.patientsTreated = s.scoreState.patientsTreated
       /\ Len(after.fallingItems) = Len(s.fallingItems) - 1
       /\ Assessments(after.fallingItems) = {}
       /\ \A k \in 1..Len(after.fallingItems) :
            after.fallingItems[k] = IF k < i THEN s.fallingItems[k] ELSE s.fallingItems[k + 1]

\* C7: when the player's hit-box overlaps an assessment item, the catch sets
\* the mistake counter to 0 and the meter to 50, clears the pending flag,
\* adds exactly 1 to assessmentsPassed, removes the item and leaves
\* patientsTreated unchanged.
C7_AssessmentCatchResets == EveryItemStep(AssessmentCaught)

C7_Witness ==
    /\ gameState = "playing"
    /\ Happened("catchAssessment")
    /\ scoreState.assessmentsPassed = 1
    /\ ~ assessmentState.pending
    /\ Assessments(fallingItems) = {}

AssessmentMissed(s, i, after, playerBox, dtMs) ==
    ( /\ s.fallingItems[i].type = "assessment"
      /\ ~ intersects(playerBox, Moved(s, i, dtMs))
      /\ Moved(s, i, dtMs).y > 100 * (CanvasHeight + 40) )
    => /\ after.assessmentState.pending = FALSE
       /\ after.knowledgeState = s.knowledgeState
       /\ after.mistakesState = s.mistakesState
       /\ after.scoreState = s.scoreState
       /\ Assessments(after.fallingItems) = {}

\* C8: an assessment item that leaves the stage bottom uncaught clears the
\* pending flag and changes neither the meter, the mistake counter nor the
\* scores; and a tick on which nothing is pending and the meter is 100 at the
\* spawn check spawns an assessment item.
C8_MissedAssessmentCanRespawn ==
    /\ [] EveryItemStep(AssessmentMissed)
    /\ [][ ( /\ gameState = "playing"
             /\ ~ assessmentState.pending
             /\ lastTimestamp' # lastTimestamp
             /\ erode(State, elapsedMs(State, clock')).knowledgeState.percent >= KNOWLEDGE_MAX )
           => \E k \in 1..Len(events') : events'[k] = "spawnAssessmentItem" ]_vars

C8_Witness ==
    /\ gameState = "playing"
    /\ Happened("missAssessment")
    /\ ~ assessmentState.pending
    /\ knowledgeState.percent = KNOWLEDGE_MAX
    /\ knowledgeState.timeSinceErosionMs + frameGap < KNOWLEDGE_EROSION_INTERVAL_MS
    /\ clock < MaxFrames * frameGap

\* C9: whenever the meter reaches 100 while the session is playing and no
\* assessment is pending, an assessment item is spawned before the meter
\* leaves 100.
C9_ArrivalAtMaxSpawnsAssessment ==
    [][ ( /\ gameState = "playing"
          /\ Happened("catchKnowledge")
          /\ knowledgeState.percent = KNOWLEDGE_MAX
          /\ ~ assessmentState.pending )
        => \/ knowledgeState'.percent = KNOWLEDGE_MAX
           \/ \E k \in 1..Len(events') : events'[k] = "spawnAssessmentItem" ]_vars

PlayerBoxOf(p) ==
    [ x |-> p.x, y |-> p.y, width |-> 100 * PLAYER_WIDTH, height |-> 100 * PLAYER_HEIGHT ]

\* C10: patientsTreated grows only by 1, on a tick that brings the contact
\* accumulator to PATIENT_TREAT_DURATION_MS with the meter at least 30 and the
\* player overlapping the patient; a tick of contact adds its time to the
\* accumulator, and a tick with the meter below 30 or without overlap resets
\* the accumulator to 0.
C10_TreatmentNeedsUnbrokenContact ==
    /\ [][ scoreState'.patientsTreated # scoreState.patientsTreated =>
             \/ events'[1] = "startGame" /\ scoreState'.patientsTreated = 0
             \/ /\ scoreState'.patientsTreated = scoreState.patientsTreated + 1
                /\ gameState = "playing"
                /\ patientState.active # Null
                /\ knowledgeState'.percent >= KNOWLEDGE_WARNING_THRESHOLD
                /\ intersects(PlayerBoxOf(player'), patientState.active)
                /\ patientState.contactDurationMs + elapsedMs(State, clock')
                     >= PATIENT_TREAT_DURATION_MS ]_vars
    /\ [][ ( /\ gameState = "playing"
             /\ patientState.active # Null
             /\ patientState' # patientState )
           => LET dtMs == elapsedMs(State, clock')
                  contact == /\ knowledgeState'.percent >= KNOWLEDGE_WARNING_THRESHOLD
                             /\ intersects(PlayerBoxOf(player'), patientState.active)
                  gone == /\ patientState'.active = Null
                          /\ patientState'.contactDurationMs = 0
              IN  IF ~ contact
                  THEN /\ patientState'.contactDurationMs = 0
                       /\ scoreState'.patientsTreated = scoreState.patientsTreated
                  ELSE IF patientState.contactDurationMs + dtMs >= PATIENT_TREAT_DURATION_MS
                  THEN gone /\ scoreState'.patientsTreated = scoreState.patientsTreated + 1
                  ELSE /\ scoreState'.patientsTreated = scoreState.patientsTreated
                       /\ \/ patientState'.contactDurationMs = patientState.contactDurationMs + dtMs
                          \/ gone /\ patientState.active.lifetimeMs + dtMs >= PATIENT_VISIBLE_MS
         ]_vars

C10_Witness ==
    /\ gameState = "playing"
    /\ frameGap < PATIENT_TREAT_DURATION_MS
    /\ scoreState.patientsTreated = 1
    /\ patientState.active # Null
    /\ patientState.contactDurationMs + frameGap >= PATIENT_TREAT_DURATION_MS
    /\ patientState.active.lifetimeMs > patientState.contactDurationMs

\* A step that is a tick of the playing session
Ticked == gameState = "playing" /\ lastTimestamp' # lastTimestamp

\* C11: an active patient is gone once its lifetime reaches
\* PATIENT_VISIBLE_MS, contacted or not; a departure restarts the gap
\* accumulator at 0, the accumulator grows only by the time of ticks, and
\* within a session a new patient becomes active only on a tick that brings
\* it to PATIENT_GAP_MS.
C11_PatientExpiresAndWaitsForGap ==
    /\ [] ( patientState.active # Null =>
              patientState.active.lifetimeMs < PATIENT_VISIBLE_MS )
    /\ [][ patientState' # patientState => Ticked \/ events'[1] = "startGame" ]_vars
    /\ [][ ( Ticked /\ patientState.active # Null /\ patientState' # patientState
             /\ patientState.active.lifetimeMs + elapsedMs(State, clock') >= PATIENT_VISIBLE_MS )
           => /\ patientState'.active = Null
              /\ patientState'.timeSinceLastPatientGoneMs = 0 ]_vars
    /\ [][ ( Ticked /\ patientState.active # Null /\ patientState'.active = Null )
           => patientState'.timeSinceLastPatientGoneMs = 0 ]_vars
    /\ [][ ( Ticked /\ patientState.active = Null /\ patientState' # patientState )
           => LET t == patientState.timeSinceLastPatientGoneMs + elapsedMs(State, clock')
              IN  IF t >= PATIENT_GAP_MS
                  THEN /\ patientState'.active # Null
                       /\ patientState'.active.lifetimeMs = 0
                  ELSE /\ patientState'.active = Null
                       /\ patientState'.timeSinceLastPatientGoneMs = t ]_vars

C11_Witness ==
    /\ gameState = "playing"
    /\ frameGap < PATIENT_GAP_MS
    /\ finalScoreLine = <<>>
    /\ scoreState.patientsTreated = 0
    /\ Happened("patientArrives")
    /\ knowledgeState.percent < 50

\* C12: on a tick where an active patient's contact accumulator reaches the
\* treat threshold and its lifetime reaches the visible-duration cap at the
\* same time, the patient is counted as treated, not expired.
C12_TreatedBeforeExpired ==
    [][ ( /\ Ticked
          /\ patientState.active # Null
          /\ patientState' # patientState
          /\ knowledgeState'.percent >= KNOWLEDGE_WARNING_THRESHOLD
          /\ intersects(PlayerBoxOf(player'), patientState.active)
          /\ patientState.contactDurationMs + elapsedMs(State, clock')
               >= PATIENT_TREAT_DURATION_MS
          /\ patientState.active.lifetimeMs + elapsedMs(State, clock')
               >= PATIENT_VISIBLE_MS )
        => /\ scoreState'.patientsTreated = scoreState.patientsTreated + 1
           /\ patientState'.active = Null
           /\ \E k \in 1..Len(events') : events'[k] = "treated"
           /\ \A k \in 1..Len(events') : events'[k] # "expired" ]_vars

C12_Witness ==
    /\ gameState = "playing"
    /\ frameGap < PATIENT_TREAT_DURATION_MS
    /\ clock < MaxFrames * frameGap
    /\ patientState.active # Null
    /\ patientState.active.lifetimeMs + frameGap >= PATIENT_VISIBLE_MS
    /\ patientState.contactDurationMs > 0
    /\ \E in \in FrameInputs(State, clock + frameGap) :
         gameLoop(State, in).scoreState.patientsTreated = scoreState.patientsTreated + 1

\* C13: after every updatePlayer step, whatever the elapsed time, the key
\* intents and the velocity before it, the player is within the stage:
\* 0 <= x <= stageWidth - PLAYER_WIDTH and y + PLAYER_HEIGHT <= FLOOR_Y.
C13_PlayerStaysOnStage ==
    /\ player.x >= 0
    /\ player.x <= 100 * CanvasWidth - 100 * PLAYER_WIDTH
    /\ player.y + 100 * PLAYER_HEIGHT <= FLOOR_Y

C13_Witness ==
    /\ gameState = "playing"
    /\ player.x = 100 * CanvasWidth - 100 * PLAYER_WIDTH
    /\ player.vx > 0
    /\ ~ player.onGround
    /\ player.vy > 0
    /\ player.y + 100 * PLAYER_HEIGHT < FLOOR_Y

\* C14: the score shown at termination is patientsTreated + 2 *
\* assessmentsPassed as the counters stand when endGame runs; and a startGame
\* that follows resets every counter and timer: meter 50, erosion accumulator
\* 0, mistakes 0, both scores 0, no falling items, no ground mistakes, pending
\* false, patient absent with gap accumulator PATIENT_GAP_MS and contact 0,
\* both spawn accumulators 0, lastTimestamp null, player at its start.
C14_ScoreAtEndAndFullReset ==
    /\ [] ( gameState = "game_over" =>
              finalScoreLine = << scoreState.patientsTreated
                                  + 2 * scoreState.assessmentsPassed >> )
    /\ [][ ( gameState = "game_over" /\ gameState' # "game_over" )
           => /\ gameState' = "playing"
              /\ knowledgeState' = [percent |-> 50, timeSinceErosionMs |-> 0]
              /\ mistakesState' = [count |-> 0]
              /\ scoreState' = [patientsTreated |-> 0, assessmentsPassed |-> 0]
              /\ fallingItems' = <<>>
              /\ groundMistakes' = <<>>
              /\ assessmentState' = [pending |-> FALSE]
              /\ patientState' = [ active |-> Null,
                                   timeSinceLastPatientGoneMs |-> PATIENT_GAP_MS,
                                   contactDurationMs |-> 0 ]
              /\ itemSpawnState'.timeSinceLastSpawnMs = 0
              /\ groundMistakeSpawnState'.timeSinceLastSpawnMs = 0
              /\ lastTimestamp' = <<>>
              /\ player' = [ x |-> (100 * CanvasWidth) \div 2 - (100 * PLAYER_WIDTH) \div 2,
                             y |-> FLOOR_Y - 100 * PLAYER_HEIGHT,
                             vx |-> 0, vy |-> 0, onGround |-> TRUE, facing |-> 1 ] ]_vars

C14_Witness ==
    /\ gameState = "playing"
    /\ events = <<"startGame">>
    /\ finalScoreLine # <<>>
    /\ finalScoreLine[1] >= 1
    /\ scoreState = [patientsTreated |-> 0, assessmentsPassed |-> 0]

KnowledgeCaughtAddsFive(s, i, after, playerBox, dtMs) ==
    ( /\ s.fallingItems[i].type = "knowledge"
      /\ intersects(playerBox, Moved(s, i, dtMs)) )
    => after.knowledgeState.percent = Min(KNOWLEDGE_MAX, s.knowledgeState.percent + 5)

\* C15: catching a knowledge (MK) item raises the knowledge meter by 5
\* percentage points per item, clamped at 100.
C15_KnowledgePickupAddsFive == EveryItemStep(KnowledgeCaughtAddsFive)

\* The value an accumulator with this period shows after a tick of dtMs
Accumulated(t, dtMs, period) == IF t + dtMs >= period THEN 0 ELSE t + dtMs

\* C16: the first frame processed in the playing state after any startGame
\* uses an elapsed time of 0, however long the game sat in start or
\* game_over; every later tick uses its timestamp minus the timestamp of the
\* tick before it.
C16_FirstFrameHasZeroElapsed ==
    /\ [] ( gameState = "start" => lastTimestamp = <<>> )
    /\ [][ events'[1] = "startGame" => lastTimestamp' = <<>> ]_vars
    /\ [][ Ticked =>
             LET dtMs == IF lastTimestamp = <<>> THEN 0 ELSE clock' - lastTimestamp[1]
             IN  /\ lastTimestamp' = <<clock'>>
                 /\ knowledgeState'.timeSinceErosionMs =
                      Accumulated(knowledgeState.timeSinceErosionMs, dtMs,
                                  KNOWLEDGE_EROSION_INTERVAL_MS)
                 /\ itemSpawnState'.timeSinceLastSpawnMs =
                      Accumulated(itemSpawnState.timeSinceLastSpawnMs, dtMs,
                                  itemSpawnState.nextSpawnDelayMs)
                 /\ player'.x = clamp(player.x + player'.vx * (dtMs \div 10), 0,
                                      100 * CanvasWidth - 100 * PLAYER_WIDTH) ]_vars

C16_Witness ==
    /\ gameState = "playing"
    /\ finalScoreLine # <<>>
    /\ lastTimestamp = <<clock>>
    /\ Happened("patientArrives")
    /\ knowledgeState = [percent |-> 50, timeSinceErosionMs |-> 0]
    /\ itemSpawnState.timeSinceLastSpawnMs = 0
    /\ groundMistakeSpawnState.timeSinceLastSpawnMs = 0
    /\ fallingItems = <<>> /\ groundMistakes = <<>>

\* The handler's result is a freshly started session
Reinitialized(after) ==
    /\ after.gameState = "playing"
    /\ after.events = <<"startGame">>
    /\ after.lastTimestamp = <<>>
    /\ after.mistakesState.count = 0
    /\ after.scoreState = [patientsTreated |-> 0, assessmentsPassed |-> 0]
    /\ after.fallingItems = <<>>

\* C17: the start trigger reinitializes the session only from start or
\* game_over, the restart trigger only from game_over; either trigger fired
\* while the session is playing, and restart fired in start, changes no state.
C17_TriggersAreGuarded ==
    /\ [] ( \A delayU \in ItemDelayDraws, groundDelayU \in GroundDelayDraws :
              LET started == startButtonClick(State, delayU, groundDelayU)
                  restarted == restartButtonClick(State, delayU, groundDelayU)
              IN  /\ gameState = "playing" => started = State /\ restarted = State
                  /\ gameState = "start" => Reinitialized(started) /\ restarted = State
                  /\ gameState = "game_over" =>
                       Reinitialized(started) /\ Reinitialized(restarted) )
    /\ [][ ( gameState = "playing" /\ events' = <<"startGame">> ) => UNCHANGED vars ]_vars

C17_Witness ==
    /\ gameState = "playing"
    /\ lastTimestamp # <<>>
    /\ mistakesState.count >= 1
    /\ scoreState.patientsTreated >= 1
    /\ fallingItems # <<>>
    /\ \A delayU \in ItemDelayDraws, groundDelayU \in GroundDelayDraws :
         /\ startButtonClick(State, delayU, groundDelayU) = State
         /\ startGame(State, delayU, groundDelayU).scoreState # scoreState

\* What a tick's collision resolution decides
Outcome(s) ==
    << s.knowledgeState.percent, s.mistakesState.count, s.scoreState,
       s.assessmentState.pending, s.gameState >>

\* The state with its falling items in the order f, a permutation of the indices
Reordered(s, f) ==
    [ s EXCEPT !.fallingItems = [ k \in 1..Len(s.fallingItems) |-> s.fallingItems[f[k]] ] ]

\* In every frame that can follow the current state, every order of the live
\* items gives updateFallingItems the same outcome
OrderIrrelevant ==
    gameState = "playing" =>
      \A in \in FrameInputs(State, clock + frameGap) :
        LET dtMs == elapsedMs(State, in.timestamp)
            b == beforeFalling(State, in)
        IN  \A f \in Permutations(1..Len(b.fallingItems)) :
              Outcome(updateFallingItems(Reordered(b, f), dtMs))
                = Outcome(updateFallingItems(b, dtMs))

\* C18: the outcome of a tick's falling-item collision resolution (meter,
\* mistake counter, score counters, pending flag, session state) does not
\* depend on the order in which the live items are processed.
C18_AnyOrderSameOutcome == OrderIrrelevant

\* C19: erosion fires only on a tick where the erosion accumulator has
\* reached KNOWLEDGE_EROSION_INTERVAL_MS; a firing lowers the meter by exactly
\* one step of 5, not below 0, however far the accumulator overshot, and
\* resets the accumulator to 0 without carrying the remainder, also when the
\* meter was already 0.
C19_ErosionStepAndReset ==
    [][ ( gameState = "playing" /\ gameState' = "playing" /\ clock' # clock ) =>
          LET t == knowledgeState.timeSinceErosionMs + (clock' - clock)
          IN  IF t >= KNOWLEDGE_EROSION_INTERVAL_MS
              THEN /\ knowledgeState'.percent = Max(0, knowledgeState.percent - 5)
                   /\ knowledgeState'.timeSinceErosionMs = 0
              ELSE /\ knowledgeState'.percent = knowledgeState.percent
                   /\ knowledgeState'.timeSinceErosionMs = t ]_vars

C19_Witness ==
    /\ gameState = "playing"
    /\ events = <<"erosionAtFloor">>
    /\ knowledgeState = [percent |-> 0, timeSinceErosionMs |-> 0]
    /\ clock % KNOWLEDGE_EROSION_INTERVAL_MS # 0

OverlappedItemDestroyed(s, i, after, playerBox, dtMs) ==
    intersects(playerBox, Moved(s, i, dtMs))
    => /\ Len(after.fallingItems) = Len(s.fallingItems) - 1
       /\ \A k \in 1..Len(after.fallingItems) :
            after.fallingItems[k] =
              IF k < i THEN s.fallingItems[k] ELSE Moved(s, k + 1, dtMs)

\* C20: every falling item that overlaps the player's hit-box on a tick is
\* removed from the falling items on that tick, whatever its type, the
\* mistake item whose hit raises the counter to MAX_MISTAKES included.
C20_OverlappedItemsAreDestroyed == EveryItemStep(OverlappedItemDestroyed)

\* The handler that led to this list of events ended the session by a
\* falling mistake item: endGame right after hitMistake
FatalFallingHit(evs) ==
    \E k \in 2..Len(evs) : evs[k] = "endGame" /\ evs[k - 1] = "hitMistake"

\* C21: on the tick where a falling mistake item raises the counter to
\* MAX_MISTAKES the rest of the tick is skipped: the patient slot, its gap,
\* lifetime and contact accumulators, patientsTreated, the ground mistakes
\* and the ground-mistake spawn timer are as they were before the tick.
C21_FatalFallingHitSkipsRestOfTick ==
    [][ ( Ticked /\ FatalFallingHit(events') )
        => /\ gameState' = "game_over"
           /\ patientState' = patientState
           /\ scoreState'.patientsTreated = scoreState.patientsTreated
           /\ groundMistakes' = groundMistakes
           /\ groundMistakeSpawnState' = groundMistakeSpawnState ]_vars

C21_Witness ==
    /\ gameState = "game_over"
    /\ FatalFallingHit(events)
    /\ lastTimestamp = <<clock>>
    /\ patientState.active # Null
    /\ groundMistakes # <<>>

\* The states in which the loop of updateGroundMistakes enters its body, each
\* with the index it is about to handle
RECURSIVE GroundStages(_, _, _, _)
GroundStages(s, i, playerBox, dtMs) ==
    IF i < 1 \/ s.gameState = "game_over" \/ s.thrown
    THEN {}
    ELSE {<<s, i>>} \cup GroundStages(groundStep(s, i, playerBox, dtMs), i - 1, playerBox, dtMs)

\* The ground mistake at index i once line 596 has aged it
Aged(s, i, dtMs) == [ s.groundMistakes[i] EXCEPT !.lifetimeMs = @ + dtMs ]

\* P(s, i, after, playerBox, dtMs) holds of every ground-mistake step of
\* every frame that can follow the current state
EveryGroundStep(P(_, _, _, _, _)) ==
    gameState = "playing" =>
      \A in \in FrameInputs(State, clock + frameGap) :
        LET dtMs == elapsedMs(State, in.timestamp)
            fallen == updateFallingItems(beforeFalling(State, in), dtMs)
            spawned == groundSpawnTimer(updatePatient(fallen, in, dtMs),
                                        in.groundU, in.groundDelayU, dtMs)
            playerBox == getPlayerHitBox(spawned.player)
        IN  fallen.gameState # "game_over" =>
              \A st \in GroundStages(spawned, Len(spawned.groundMistakes), playerBox, dtMs) :
                P(st[1], st[2], groundStep(st[1], st[2], playerBox, dtMs), playerBox, dtMs)

\* The ground mistakes of s without the one at index i, the latter aged
WithoutGround(s, i) == splice(s.groundMistakes, i)

GroundHit(s, i, after) ==
    /\ after.mistakesState.count = Min(MAX_MISTAKES, s.mistakesState.count + 1)
    /\ after.groundMistakes = WithoutGround(s, i)
    /\ after.gameState =
         IF after.mistakesState.count >= MAX_MISTAKES THEN "game_over" ELSE s.gameState

GroundGone(s, i, after) ==
    /\ after.mistakesState = s.mistakesState
    /\ after.groundMistakes = WithoutGround(s, i)
    /\ after.gameState = s.gameState

GroundStays(s, i, after, dtMs) ==
    /\ after.mistakesState = s.mistakesState
    /\ after.groundMistakes = [ s.groundMistakes EXCEPT ![i] = Aged(s, i, dtMs) ]
    /\ after.gameState = s.gameState

GroundStepExceeds(s, i, after, playerBox, dtMs) ==
    IF intersects(playerBox, Aged(s, i, dtMs)) THEN GroundHit(s, i, after)
    ELSE IF Aged(s, i, dtMs).lifetimeMs > GROUND_MISTAKE_DURATION_MS THEN GroundGone(s, i, after)
    ELSE GroundStays(s, i, after, dtMs)

GroundStepReaches(s, i, after, playerBox, dtMs) ==
    IF intersects(playerBox, Aged(s, i, dtMs)) THEN GroundHit(s, i, after)
    ELSE IF Aged(s, i, dtMs).lifetimeMs >= GROUND_MISTAKE_DURATION_MS THEN GroundGone(s, i, after)
    ELSE GroundStays(s, i, after, dtMs)

\* C22 as stated: a live ground mistake that overlaps the padded hit-box adds
\* exactly 1 to the mistake counter (capped at MAX_MISTAKES) and is destroyed,
\* the session ending if the counter reached MAX_MISTAKES; otherwise, if its
\* lifetime exceeds GROUND_MISTAKE_DURATION_MS, it is destroyed with no change
\* to the counter; otherwise it stays in the field.
C22_GroundMistakeExpiresPastDuration == EveryGroundStep(GroundStepExceeds)

\* C22 as amended: the same, with the ground mistake destroyed once its
\* lifetime has reached GROUND_MISTAKE_DURATION_MS (at exactly the duration
\* too).
C22_GroundMistakeExpiresAtDuration == EveryGroundStep(GroundStepReaches)

\* A ground mistake has just expired at a frame interval that divides the
\* duration, hence at a lifetime of exactly GROUND_MISTAKE_DURATION_MS, in a
\* session in which another one was stepped on
C22_Witness ==
    /\ gameState = "playing"
    /\ Happened("groundMistakeExpired")
    /\ GROUND_MISTAKE_DURATION_MS % frameGap = 0
    /\ mistakesState.count >= 1

\* C23: every invocation of gameLoop, whatever the session state and whichever
\* way it leaves (not playing, ended by a falling mistake, ended by a ground
\* mistake, normal tick), requests exactly one next callback: one callback is
\* pending after it, never none and never two.
C23_EveryFrameRequestsOneFrame ==
    [][ clock' # clock
        => /\ Requests([events |-> events']) = 1
           /\ events'[Len(events')] = "requestAnimationFrame"
           /\ pendingFrames' = 1 ]_vars

\* A frame that a ground mistake ended has left one callback pending
C23_Witness ==
    /\ gameState = "game_over"
    /\ lastTimestamp = <<clock>>
    /\ \E k \in 2..Len(events) : events[k] = "endGame" /\ events[k - 1] = "hitGroundMistake"
    /\ events[Len(events)] = "requestAnimationFrame"
    /\ pendingFrames = 1

\* The accumulators of patientState are within their limits
PatientInRange ==
    IF patientState.active # Null
    THEN /\ patientState.active.lifetimeMs < PATIENT_VISIBLE_MS
         /\ patientState.contactDurationMs < PATIENT_TREAT_DURATION_MS
         /\ patientState.contactDurationMs <= patientState.active.lifetimeMs
    ELSE /\ patientState.contactDurationMs = 0
         /\ patientState.timeSinceLastPatientGoneMs < PATIENT_GAP_MS

\* C24: at the end of every tick of a playing session, an active patient has
\* a lifetime below PATIENT_VISIBLE_MS and a contact time below
\* PATIENT_TREAT_DURATION_MS and not above its lifetime; with no patient the
\* contact time is 0 and the gap accumulator is below PATIENT_GAP_MS.
C24_PatientAccumulatorsInRange ==
    ( gameState = "playing" /\ lastTimestamp # <<>> ) => PatientInRange

\* After a tick, a second patient with the player on it since it arrived
C24_Witness ==
    /\ gameState = "playing"
    /\ lastTimestamp = <<clock>>
    /\ scoreState.patientsTreated >= 1
    /\ patientState.active # Null
    /\ patientState.active.lifetimeMs > 0
    /\ patientState.contactDurationMs = patientState.active.lifetimeMs

\* The grounded flag agrees with the player's position and velocity
GroundedOnFloorOnly(p) ==
    /\ p.onGround <=> ( p.y + 100 * PLAYER_HEIGHT = FLOOR_Y )
    /\ p.onGround => p.vy = 0

\* C25: after every updatePlayer step the grounded flag is true exactly when
\* the player's bottom edge is on the floor line (y + PLAYER_HEIGHT = FLOOR_Y),
\* and then the vertical velocity is 0; a jump intent on a tick with zero
\* elapsed time leaves a grounded player grounded.
C25_GroundedExactlyOnFloor ==
    /\ GroundedOnFloorOnly(player)
    /\ ( gameState = "playing" /\ player.onGround ) =>
         \A keys \in AllIntents :
           LET after == updatePlayer(State, keys[1], keys[2], TRUE, 0).player
           IN  after.onGround /\ after.vy = 0 /\ after.y = player.y

\* A jump has taken the player off the floor: rising, the flag false
C25_Witness ==
    /\ gameState = "playing"
    /\ ~ player.onGround
    /\ player.vy < 0
    /\ player.y + 100 * PLAYER_HEIGHT < FLOOR_Y

====
